---- MODULE Spec2Model ----
(***************************************************************************)
(* Model of content_researcher.py: the interactive session controller      *)
(* (LinkedInPostGenerator), the prompt construction of ClaudePostFormatter *)
(* and the two response paths of PerplexityResearcher.                     *)
(*                                                                         *)
(* Texts are sequences of tokens.  Research text and prompts are sequences *)
(* of strings; the texts of the generation service are sequences of        *)
(* naturals in which 0 stands for a whitespace character and a positive    *)
(* number n for a word of the n-th reply the service gave.                 *)
(***************************************************************************)
EXTENDS Naturals, Sequences, FiniteSets

VARIABLES
    env,                \* os.environ after load_dotenv: the two API keys
    pc,                 \* position of the single thread of control
    topic,              \* get_user_preferences: local topic
    format_choice,      \* get_user_preferences: local format_choice
    is_customer_story,  \* get_user_preferences: local is_customer_story
    length_choice,      \* get_user_preferences: local length_choice
    customer_asked,     \* history: the y/n prompt was shown in this collection
    config,             \* feedback_loop: local config of the active frame
    research_content,   \* generate_post: local research_content
    initial_post,       \* feedback_loop: local initial_post of the active frame
    choice,             \* feedback_loop: local choice (last menu input)
    stack,              \* suspended feedback_loop frames (line 419), outermost first
    calls,              \* history: the calls made by feedback_loop / generate_post
    shown,              \* history: what has been written to the console
    returned,           \* value returned by the outermost feedback_loop
    has_returned,       \* the outermost feedback_loop has returned
    error,              \* message printed by main's handler, "" if none
    nreplies,           \* number of replies the generation service has given
    p_config,           \* prompt construction: the PostConfig argument
    p_research,         \* prompt construction: the research_content argument
    p_prompt,           \* prompt construction: the instruction built
    p_state,            \* prompt construction: "input", "built" or "KeyError"
    upstream,           \* research service: the content it is about to deliver
    sent,               \* research service: number of tokens of upstream streamed
    wire,               \* research service: the chunks of the response stream
    closed,             \* research service: the response stream has ended
    r_stream,           \* result of get_research(topic, stream=True)
    r_complete,         \* result of get_research(topic, stream=False)
    r_done              \* which of the two research paths have returned

sessionVars == <<env, pc, topic, format_choice, is_customer_story, length_choice,
                 customer_asked, config, research_content, initial_post, choice,
                 stack, calls, shown, returned, has_returned, error, nreplies>>
promptVars == <<p_config, p_research, p_prompt, p_state>>
streamVars == <<upstream, sent, wire, closed, r_stream, r_complete, r_done>>
vars == <<sessionVars, promptVars, streamVars>>

----------------------------------------------------------------------------
(* Bounds of the model *)

\* the session makes at most this many calls (collections and service calls)
MaxCalls == 7
\* at most this many restarts (nested feedback_loop frames)
MaxRestarts == 2
\* upstream research content has at most this many tokens
MaxLen == 3
\* a response stream carries at most this many chunks
MaxChunks == 4

----------------------------------------------------------------------------
(* Values *)

None == "None"
NoText == <<>>
NoPost == <<>>
NoConfig == [format_type |-> "none", topic |-> "", length |-> "", is_customer_story |-> FALSE]

FACTS_WITH_EMOJI == "facts_with_emoji"
STORY_BASED == "story_based"
GUIDE_BASED == "guide_based"
INDUSTRY_INSIGHT == "industry_insight"
PostFormat == {FACTS_WITH_EMOJI, STORY_BASED, GUIDE_BASED, INDUSTRY_INSIGHT}
Lengths == {"short", "medium", "long"}

PostConfig(f, t, l, c) ==
    [format_type |-> f, topic |-> t, length |-> l, is_customer_story |-> c]

\* what the user may type
Topics == {"t1", "t2"}
FormatInputs == {"1", "2", "3", "4", "5"}
LengthInputs == {"1", "2", "3", "4"}
MenuInputs == {"1", "2", "3", "4", ""}
CustomerInputs == {<<"y">>, <<"Y">>, <<"n">>, <<"y", "e", "s">>}
Feedbacks == {"f1", "f2"}
\* what the environment may hold for an API key
KeyValues == {None, "", "key"}

----------------------------------------------------------------------------
(* Pure helpers *)

\* `not key` of __init__: None and the empty string are both falsy
Falsy(k) == k = None \/ k = ""

\* str.lower() on the characters the user may type
LowerChar(c) == IF c = "Y" THEN "y" ELSE c
Lower(s) == [i \in 1..Len(s) |-> LowerChar(s[i])]

format_map(c) ==
    CASE c = "1" -> FACTS_WITH_EMOJI
      [] c = "2" -> STORY_BASED
      [] c = "3" -> GUIDE_BASED
      [] c = "4" -> INDUSTRY_INSIGHT

length_map(c) ==
    CASE c = "1" -> "short"
      [] c = "2" -> "medium"
      [] c = "3" -> "long"

\* str.strip() on a reply of the generation service (0 is whitespace)
RECURSIVE LStrip(_)
LStrip(s) == IF s # <<>> /\ Head(s) = 0 THEN LStrip(Tail(s)) ELSE s
RECURSIVE RStrip(_)
RStrip(s) == IF s # <<>> /\ s[Len(s)] = 0 THEN RStrip(SubSeq(s, 1, Len(s) - 1)) ELSE s
Strip(s) == RStrip(LStrip(s))

\* the texts the generation service may send for its n-th reply
Replies(n) == {<<n, 0, n>>, <<0, n, 0, n, 0, 0>>, <<0, 0, n, 0, n>>}

----------------------------------------------------------------------------
(* ClaudePostFormatter._create_format_prompt *)

CUSTOMER_STORY_NOTE == "Since this is based on a customer story, ..."

length_guide(l) ==
    CASE l = "short" -> "Keep the post concise, around 150-200 words."
      [] l = "medium" -> "Aim for around 250-300 words total."
      [] l = "long" -> "Create a more detailed post of around 350-450 words."

\* the four templates, each ending with the length instruction
formats(f, cfg) ==
    CASE f = FACTS_WITH_EMOJI ->
            <<"Structure the post exactly like this: ...", length_guide(cfg.length)>>
      [] f = STORY_BASED ->
            <<"Structure the post as a personal story or customer case study: ...",
              length_guide(cfg.length)>>
      [] f = GUIDE_BASED ->
            <<"Structure the post as an educational guide: ...", length_guide(cfg.length)>>
      [] f = INDUSTRY_INSIGHT ->
            <<"Structure the post as an industry insight: [Title ... about", cfg.topic,
              "] ...", length_guide(cfg.length)>>

customer_story_note_story_only(cfg) ==
    IF cfg.is_customer_story /\ cfg.format_type = STORY_BASED
    THEN <<CUSTOMER_STORY_NOTE>> ELSE <<>>

\* lines 149-153: the fragment if config.is_customer_story, else the empty string
customer_story_note(cfg) ==
    IF cfg.is_customer_story THEN <<CUSTOMER_STORY_NOTE>> ELSE <<>>

\* formats.get(config.format_type, formats[PostFormat.FACTS_WITH_EMOJI])
post_format(cfg) ==
    IF cfg.format_type \in PostFormat THEN formats(cfg.format_type, cfg)
    ELSE formats(FACTS_WITH_EMOJI, cfg)

\* building the templates evaluates length_guide[config.length] (KeyError if absent)
PromptRaises(cfg) == cfg.length \notin Lengths

CreateFormatPrompt(research, cfg) ==
    <<"Format this research about", cfg.topic, "into a LinkedIn post.">>
    \o post_format(cfg)
    \o customer_story_note(cfg)
    \o <<"Return the post as plain text with proper line breaks. ...",
         "Here's the research:">>
    \o research

Contains(text, fragment) == \E i \in 1..Len(text) : text[i] = fragment

----------------------------------------------------------------------------
(* PerplexityResearcher: the two response paths *)

\* a chunk of the response stream: delta.content is a text or None
Chunk(t) == [has |-> TRUE, text |-> t]
NoneChunk == [has |-> FALSE, text |-> <<>>]

\* "".join(content)
RECURSIVE Join(_)
Join(pieces) == IF pieces = <<>> THEN <<>> ELSE Head(pieces) \o Join(Tail(pieces))

RECURSIVE Collect_prepend(_, _)
Collect_prepend(chunks, content) ==
    IF chunks = <<>> THEN content
    ELSE Collect_prepend(Tail(chunks),
                         IF Head(chunks).has THEN <<Head(chunks).text>> \o content
                         ELSE content)

\* the for loop of _stream_response: content.append for every chunk that has content
RECURSIVE Collect(_, _)
Collect(chunks, content) ==
    IF chunks = <<>> THEN content
    ELSE Collect(Tail(chunks),
                 IF Head(chunks).has THEN Append(content, Head(chunks).text) ELSE content)

StreamResponse(chunks) == Join(Collect(chunks, <<>>))

\* response.choices[0].message.content
CompleteResponse(body) == body

----------------------------------------------------------------------------
(* The session: main, LinkedInPostGenerator.__init__, get_user_preferences, *)
(* generate_post and feedback_loop                                          *)

\* an entry of the call history
Call(op, cfg, t, research, original, feedback, ok, text, post) ==
    [op |-> op, session |-> Len(stack), config |-> cfg, topic |-> t,
     research |-> research, original_post |-> original, feedback |-> feedback,
     ok |-> ok, text |-> text, post |-> post]

\* the stream the research service delivers in a session for topic t: a text
\* about t, in fragments, one of them empty and one chunk without content
SessionStreams(t) ==
    {<<NoneChunk, Chunk(<<"facts about">>), Chunk(<<>>), Chunk(<<t, "sources">>)>>}

Raise_retry(msg) ==
    /\ pc' = pc
    /\ error' = msg
    /\ shown' = shown \cup {"error"}
    /\ stack' = stack

\* an exception leaves every frame and reaches the handler of main (lines 434-435)
Raise(msg) ==
    /\ pc' = "exit"
    /\ error' = msg
    /\ shown' = shown \cup {"error"}
    /\ stack' = <<>>

InitSession ==
    /\ env \in [PERPLEXITY_API_KEY : KeyValues, ANTHROPIC_API_KEY : KeyValues]
    /\ pc = "main"
    /\ topic = ""
    /\ format_choice = ""
    /\ is_customer_story = FALSE
    /\ length_choice = ""
    /\ customer_asked = FALSE
    /\ config = NoConfig
    /\ research_content = NoText
    /\ initial_post = NoPost
    /\ choice = ""
    /\ stack = <<>>
    /\ calls = <<>>
    /\ shown = {}
    /\ returned = NoPost
    /\ has_returned = FALSE
    /\ error = ""
    /\ nreplies = 0

MissingKey_first(e) ==
    IF Falsy(e.PERPLEXITY_API_KEY) THEN "PERPLEXITY_API_KEY not found in environment variables"
    ELSE ""

\* the first missing credential, in the order __init__ tests them; "" if none
MissingKey(e) ==
    IF Falsy(e.PERPLEXITY_API_KEY) THEN "PERPLEXITY_API_KEY not found in environment variables"
    ELSE IF Falsy(e.ANTHROPIC_API_KEY) THEN "ANTHROPIC_API_KEY not found in environment variables"
    ELSE ""

\* main, lines 427-432: construct the generator, print the banner, enter feedback_loop
Construct ==
    /\ pc = "main"
    /\ IF MissingKey(env) # ""
       THEN /\ Raise(MissingKey(env))
            /\ UNCHANGED <<customer_asked>>
       ELSE /\ pc' = "topic"
            /\ shown' = shown \cup {"banner"}
            /\ customer_asked' = FALSE
            /\ UNCHANGED <<error, stack>>
    /\ UNCHANGED <<env, topic, format_choice, is_customer_story, length_choice, config,
                   research_content, initial_post, choice, calls, returned,
                   has_returned, nreplies>>

\* get_user_preferences, lines 320-330: the topic prompt
AskTopic ==
    /\ pc = "topic"
    /\ Len(calls) < MaxCalls
    /\ \E t \in Topics : topic' = t
    /\ format_choice' = ""
    /\ pc' = "format"
    /\ shown' = shown \cup {"prompt"}
    /\ UNCHANGED <<env, is_customer_story, length_choice, customer_asked, config,
                   research_content, initial_post, choice, stack, calls, returned,
                   has_returned, error, nreplies>>

\* the loop conditions of lines 331 and 352
ValidFormat(c) == c \in {"1", "2", "3", "4"}
ValidLength(c) == c \in {"1", "2", "3"}

NeedsCustomerPrompt_guide(c) == c \in {"2", "3"}

\* line 342: if format_choice == "2"
NeedsCustomerPrompt(c) == c = "2"

\* lines 331-342: one round of the format loop; on leaving it, is_customer_story = False
AskFormat ==
    /\ pc = "format"
    /\ \E c \in FormatInputs :
        /\ format_choice' = c
        /\ IF ~ValidFormat(c)
           THEN /\ pc' = "format"
                /\ UNCHANGED <<is_customer_story, length_choice>>
           ELSE /\ is_customer_story' = FALSE
                /\ IF NeedsCustomerPrompt(c)
                   THEN pc' = "customer" /\ UNCHANGED length_choice
                   ELSE pc' = "length" /\ length_choice' = ""
    /\ UNCHANGED <<env, topic, customer_asked, config, research_content, initial_post,
                   choice, stack, calls, shown, returned, has_returned, error, nreplies>>

\* lines 343-351: the customer-story prompt, asked for the story-based format
AskCustomer ==
    /\ pc = "customer"
    /\ \E c \in CustomerInputs : is_customer_story' = (Lower(c) = <<"y">>)
    /\ customer_asked' = TRUE
    /\ length_choice' = ""
    /\ pc' = "length"
    /\ UNCHANGED <<env, topic, format_choice, config, research_content, initial_post,
                   choice, stack, calls, shown, returned, has_returned, error, nreplies>>

\* lines 352-366 and 386: one round of the length loop; on leaving it the PostConfig
\* is returned to feedback_loop
AskLength ==
    /\ pc = "length"
    /\ \E c \in LengthInputs :
        /\ length_choice' = c
        /\ IF ~ValidLength(c)
           THEN /\ pc' = "length"
                /\ UNCHANGED <<config, calls>>
           ELSE LET cfg == PostConfig(format_map(format_choice), topic,
                                      length_map(c), is_customer_story)
                IN /\ config' = cfg
                   /\ calls' = Append(calls, Call("get_user_preferences", cfg, "", NoText,
                                                  NoPost, "", TRUE, NoText, NoPost))
                   /\ pc' = "research"
    /\ UNCHANGED <<env, topic, format_choice, is_customer_story, customer_asked,
                   research_content, initial_post, choice, stack, shown, returned,
                   has_returned, error, nreplies>>

\* line 375: the topic handed to get_research
ResearchArg(cfg) == cfg.topic

FormatArgs_noresearch(rc, cfg) == [research |-> NoText, config |-> cfg]

\* line 378: the arguments handed to format_post
FormatArgs(rc, cfg) == [research |-> rc, config |-> cfg]

\* generate_post, lines 374-375: get_research(config.topic), streaming by default
Research ==
    /\ pc = "research"
    /\ Len(calls) < MaxCalls
    /\ \/ /\ \E chunks \in SessionStreams(ResearchArg(config)) :
               LET text == StreamResponse(chunks)
               IN /\ research_content' = text
                  /\ calls' = Append(calls, Call("get_research", NoConfig, ResearchArg(config),
                                                 NoText, NoPost, "", TRUE, text, NoPost))
          /\ pc' = "format_post"
          /\ UNCHANGED <<error, shown, stack>>
       \/ /\ calls' = Append(calls, Call("get_research", NoConfig, ResearchArg(config),
                                         NoText, NoPost, "", FALSE, NoText, NoPost))
          /\ Raise("research service error")
          /\ UNCHANGED research_content
    /\ UNCHANGED <<env, topic, format_choice, is_customer_story, length_choice,
                   customer_asked, config, initial_post, choice, returned,
                   has_returned, nreplies>>

\* generate_post, lines 377-380, format_post, lines 172-185, and lines 387-390
FormatPost ==
    /\ pc = "format_post"
    /\ Len(calls) < MaxCalls
    /\ LET args == FormatArgs(research_content, config)
           prompt == CreateFormatPrompt(args.research, args.config)
       IN /\ ~PromptRaises(args.config)
          /\ \/ /\ \E raw \in Replies(nreplies + 1) :
                     /\ initial_post' = Strip(raw)
                     /\ calls' = Append(calls, Call("format_post", args.config, "",
                                                    args.research, NoPost, "", TRUE,
                                                    prompt, Strip(raw)))
                /\ nreplies' = nreplies + 1
                /\ pc' = "review"
                /\ shown' = shown \cup {"post"}
                /\ UNCHANGED <<error, stack>>
             \/ /\ calls' = Append(calls, Call("format_post", args.config, "",
                                               args.research, NoPost, "", FALSE,
                                               prompt, NoPost))
                /\ Raise("generation service error")
                /\ UNCHANGED <<initial_post, nreplies>>
    /\ UNCHANGED <<env, topic, format_choice, is_customer_story, length_choice,
                   customer_asked, config, research_content, choice, returned,
                   has_returned>>

\* line 406: the post handed to revise_post
RevisionInput_first(current) ==
    IF \E i \in 1..Len(calls) : calls[i].op = "format_post" /\ calls[i].session = Len(stack)
    THEN calls[CHOOSE i \in 1..Len(calls) :
                  calls[i].op = "format_post" /\ calls[i].session = Len(stack)].post
    ELSE current

RevisionInput(current) == current

\* line 411: initial_post = revised_post
PostAfterRevision(current, revised) == revised

\* feedback_loop, lines 399-411: choice "1"
Revise ==
    /\ pc = "review"
    /\ Len(calls) < MaxCalls
    /\ choice' = "1"
    /\ \E feedback \in Feedbacks :
        \/ /\ \E raw \in Replies(nreplies + 1) :
                /\ initial_post' = PostAfterRevision(initial_post, Strip(raw))
                /\ calls' = Append(calls, Call("revise_post", NoConfig, "", NoText,
                                               RevisionInput(initial_post), feedback,
                                               TRUE, NoText, Strip(raw)))
           /\ nreplies' = nreplies + 1
           /\ pc' = "review"
           /\ shown' = shown \cup {"prompt", "post"}
           /\ UNCHANGED <<error, stack>>
        \/ /\ calls' = Append(calls, Call("revise_post", NoConfig, "", NoText,
                                          RevisionInput(initial_post), feedback,
                                          FALSE, NoText, NoPost))
           /\ Raise("generation service error")
           /\ UNCHANGED <<initial_post, nreplies>>
    /\ UNCHANGED <<env, topic, format_choice, is_customer_story, length_choice,
                   customer_asked, config, research_content, returned, has_returned>>

\* lines 415 and 419: the value that leaves the outermost feedback_loop
AcceptValue_outer(frames, current) ==
    IF frames # <<>> THEN frames[1].initial_post ELSE current

AcceptValue(frames, current) == current

\* feedback_loop, lines 413-415: choice "2"; every suspended frame returns the
\* value of its nested call (line 419), and main ends
Accept ==
    /\ pc = "review"
    /\ choice' = "2"
    /\ returned' = AcceptValue(stack, initial_post)
    /\ has_returned' = TRUE
    /\ stack' = <<>>
    /\ pc' = "exit"
    /\ shown' = shown \cup {"prompt"}
    /\ UNCHANGED <<env, topic, format_choice, is_customer_story, length_choice,
                   customer_asked, config, research_content, initial_post, calls,
                   error, nreplies>>

\* the locals of the frame a restart opens
FreshFrame_stale(cfg, post) == [config |-> cfg, initial_post |-> post, pc |-> "research"]

FreshFrame(cfg, post) == [config |-> NoConfig, initial_post |-> NoPost, pc |-> "topic"]

\* feedback_loop, lines 417-419: choice "3"; the frame is suspended and a new
\* feedback_loop begins with get_user_preferences
Restart ==
    /\ pc = "review"
    /\ Len(stack) < MaxRestarts
    /\ choice' = "3"
    /\ stack' = Append(stack, [config |-> config, initial_post |-> initial_post])
    /\ config' = FreshFrame(config, initial_post).config
    /\ initial_post' = FreshFrame(config, initial_post).initial_post
    /\ pc' = FreshFrame(config, initial_post).pc
    /\ customer_asked' = FALSE
    /\ shown' = shown \cup {"prompt"}
    /\ UNCHANGED <<env, topic, format_choice, is_customer_story, length_choice,
                   research_content, calls, returned, has_returned, error, nreplies>>

InvalidChoice_accepts ==
    /\ pc = "review"
    /\ \E c \in MenuInputs \ {"1", "2", "3"} : choice' = c
    /\ returned' = initial_post
    /\ has_returned' = TRUE
    /\ stack' = <<>>
    /\ pc' = "exit"
    /\ shown' = shown \cup {"prompt"}
    /\ UNCHANGED <<env, topic, format_choice, is_customer_story, length_choice,
                   customer_asked, config, research_content, initial_post, calls,
                   error, nreplies>>

\* feedback_loop, lines 421-422: any other menu input
InvalidChoice ==
    /\ pc = "review"
    /\ \E c \in MenuInputs \ {"1", "2", "3"} : choice' = c
    /\ shown' = shown \cup {"prompt"}
    /\ UNCHANGED <<env, pc, topic, format_choice, is_customer_story, length_choice,
                   customer_asked, config, research_content, initial_post, stack, calls,
                   returned, has_returned, error, nreplies>>

----------------------------------------------------------------------------
(* The specifications *)

\* the session is not running
IdleSession ==
    /\ env = [PERPLEXITY_API_KEY |-> "key", ANTHROPIC_API_KEY |-> "key"]
    /\ pc = "idle"
    /\ topic = ""
    /\ format_choice = ""
    /\ is_customer_story = FALSE
    /\ length_choice = ""
    /\ customer_asked = FALSE
    /\ config = NoConfig
    /\ research_content = NoText
    /\ initial_post = NoPost
    /\ choice = ""
    /\ stack = <<>>
    /\ calls = <<>>
    /\ shown = {}
    /\ returned = NoPost
    /\ has_returned = FALSE
    /\ error = ""
    /\ nreplies = 0

IdlePrompt ==
    /\ p_config = NoConfig
    /\ p_research = NoText
    /\ p_prompt = <<>>
    /\ p_state = "idle"

IdleStream ==
    /\ upstream = <<>>
    /\ sent = 0
    /\ wire = <<>>
    /\ closed = FALSE
    /\ r_stream = NoText
    /\ r_complete = NoText
    /\ r_done = {}

Init == InitSession /\ IdlePrompt /\ IdleStream

Next ==
    \/ Construct /\ UNCHANGED <<promptVars, streamVars>>
    \/ AskTopic /\ UNCHANGED <<promptVars, streamVars>>
    \/ AskFormat /\ UNCHANGED <<promptVars, streamVars>>
    \/ AskCustomer /\ UNCHANGED <<promptVars, streamVars>>
    \/ AskLength /\ UNCHANGED <<promptVars, streamVars>>
    \/ Research /\ UNCHANGED <<promptVars, streamVars>>
    \/ FormatPost /\ UNCHANGED <<promptVars, streamVars>>
    \/ Revise /\ UNCHANGED <<promptVars, streamVars>>
    \/ Accept /\ UNCHANGED <<promptVars, streamVars>>
    \/ Restart /\ UNCHANGED <<promptVars, streamVars>>
    \/ InvalidChoice /\ UNCHANGED <<promptVars, streamVars>>

Spec == Init /\ [][Next]_vars

(* _create_format_prompt applied to every PostConfig a caller can construct *)

\* PostConfig accepts any format_type and any length (lines 22-32)
AnyFormat == PostFormat \cup {"other"}
AnyLength == Lengths \cup {"huge"}
ResearchTexts == {<<"a", "b">>, <<>>}

InitPrompt ==
    /\ p_config \in {PostConfig(f, t, l, c) :
                        f \in AnyFormat, t \in Topics, l \in AnyLength, c \in BOOLEAN}
    /\ p_research \in ResearchTexts
    /\ p_prompt = <<>>
    /\ p_state = "input"

\* lines 59-170 with a length the table holds
BuildPrompt ==
    /\ p_state = "input"
    /\ ~PromptRaises(p_config)
    /\ p_prompt' = CreateFormatPrompt(p_research, p_config)
    /\ p_state' = "built"
    /\ UNCHANGED <<p_config, p_research>>

\* lines 87, 104, 125, 145 with a length the table does not hold
BuildPromptKeyError ==
    /\ p_state = "input"
    /\ PromptRaises(p_config)
    /\ p_state' = "KeyError"
    /\ UNCHANGED <<p_config, p_research, p_prompt>>

NextPrompt ==
    \/ BuildPrompt /\ UNCHANGED <<sessionVars, streamVars>>
    \/ BuildPromptKeyError /\ UNCHANGED <<sessionVars, streamVars>>

InitPromptSpec == IdleSession /\ InitPrompt /\ IdleStream

SpecPrompt == InitPromptSpec /\ [][NextPrompt]_vars

(* get_research on the same upstream content, once streamed and once single-shot *)

Tokens == {"a", "b"}
Contents == UNION {[1..n -> Tokens] : n \in 0..MaxLen}

InitStream ==
    /\ upstream \in Contents
    /\ sent = 0
    /\ wire = <<>>
    /\ closed = FALSE
    /\ r_stream = NoText
    /\ r_complete = NoText
    /\ r_done = {}

\* the service streams the next fragment of the content: any number of tokens of
\* what is left (none gives an empty fragment), or a chunk without content
SendChunk ==
    /\ ~closed
    /\ Len(wire) < MaxChunks
    /\ \/ /\ wire' = Append(wire, NoneChunk)
          /\ UNCHANGED sent
       \/ \E n \in 0..(Len(upstream) - sent) :
             /\ wire' = Append(wire, Chunk(SubSeq(upstream, sent + 1, sent + n)))
             /\ sent' = sent + n
    /\ UNCHANGED <<upstream, closed, r_stream, r_complete, r_done>>

\* the service ends the stream once all of the content is delivered
EndStream ==
    /\ ~closed
    /\ sent = Len(upstream)
    /\ closed' = TRUE
    /\ UNCHANGED <<upstream, sent, wire, r_stream, r_complete, r_done>>

\* get_research(topic, stream=True), lines 267-268 and 274-289
GetResearchStream ==
    /\ closed
    /\ "stream" \notin r_done
    /\ r_stream' = StreamResponse(wire)
    /\ r_done' = r_done \cup {"stream"}
    /\ UNCHANGED <<upstream, sent, wire, closed, r_complete>>

\* get_research(topic, stream=False), lines 269-270 and 291-297
GetResearchComplete ==
    /\ "complete" \notin r_done
    /\ r_complete' = CompleteResponse(upstream)
    /\ r_done' = r_done \cup {"complete"}
    /\ UNCHANGED <<upstream, sent, wire, closed, r_stream>>

NextStream ==
    \/ SendChunk /\ UNCHANGED <<sessionVars, promptVars>>
    \/ EndStream /\ UNCHANGED <<sessionVars, promptVars>>
    \/ GetResearchStream /\ UNCHANGED <<sessionVars, promptVars>>
    \/ GetResearchComplete /\ UNCHANGED <<sessionVars, promptVars>>

InitStreamSpec == IdleSession /\ IdlePrompt /\ InitStream

SpecStream == InitStreamSpec /\ [][NextStream]_vars

----------------------------------------------------------------------------
(* Properties *)

Last == calls[Len(calls)]
\* the calls of session s (the feedback_loop frame at depth s), in order
SessionCalls(s) == SelectSeq(calls, LAMBDA c : c.session = s)
Sessions == {calls[i].session : i \in 1..Len(calls)}
PostOps == {"format_post", "revise_post"}
Collecting == {"topic", "format", "customer", "length"}

\* C1: every session makes its calls in the order get_user_preferences,
\* get_research, format_post and only then revise_post: one get_research on the
\* topic just collected, one format_post on the text that get_research returned and
\* the config just collected, and the REVIEW prompt only after format_post returned.
C1_SessionOrder ==
    /\ \A s \in Sessions :
          LET sc == SessionCalls(s)
          IN \A k \in 1..Len(sc) :
                /\ k = 1 => sc[k].op = "get_user_preferences"
                /\ k = 2 => /\ sc[k].op = "get_research"
                            /\ sc[k].topic = sc[1].config.topic
                /\ k = 3 => /\ sc[k].op = "format_post"
                            /\ sc[2].ok
                            /\ sc[k].research = sc[2].text
                            /\ sc[k].config = sc[1].config
                /\ k > 3 => /\ sc[k].op = "revise_post"
                            /\ sc[3].ok
    /\ \A i \in 1..Len(calls) - 1 : calls[i].session <= calls[i + 1].session
    /\ pc = "review" =>
          /\ Len(SessionCalls(Len(stack))) >= 3
          /\ SessionCalls(Len(stack))[3].ok

\* a session after a restart has reached REVIEW
C1_Witness ==
    /\ pc = "review"
    /\ stack # <<>>
    /\ Last.op = "format_post"
    /\ Last.research # NoText

\* C2: revise_post is called with the current post (the result of the call before
\* it, a format_post or a revise_post of the same session) and the feedback
\* entered; its result becomes the current post and the controller is in REVIEW.
C2_ReviseChain ==
    /\ \A i \in 1..Len(calls) :
          calls[i].op = "revise_post" =>
             /\ i > 1
             /\ calls[i - 1].op \in PostOps
             /\ calls[i - 1].ok
             /\ calls[i - 1].session = calls[i].session
             /\ calls[i].original_post = calls[i - 1].post
             /\ calls[i].feedback \in Feedbacks
    /\ pc = "review" => Last.op \in PostOps /\ Last.ok /\ initial_post = Last.post
    /\ (calls # <<>> /\ Last.op = "revise_post" /\ Last.ok
          /\ Last.session = Len(stack) /\ ~has_returned) => pc = "review"

\* two revisions in a row
C2_Witness ==
    /\ pc = "review"
    /\ Len(calls) >= 2
    /\ Last.op = "revise_post"
    /\ calls[Len(calls) - 1].op = "revise_post"
    /\ initial_post = Last.post
    /\ Last.original_post = calls[Len(calls) - 1].post

\* C3: what feedback_loop returns is the post that was current at the accept: the
\* result of the last call, a revise_post or the format_post of the accepting session.
C3_AcceptReturnsCurrent ==
    has_returned =>
        /\ pc = "exit"
        /\ Last.op \in PostOps
        /\ Last.ok
        /\ returned = Last.post
        /\ returned = initial_post

\* an accept after a restart and a revision
C3_Witness ==
    /\ has_returned
    /\ Last.session >= 1
    /\ Last.op = "revise_post"

\* C4: after a restart the new frame starts without config and post, its config is
\* collected anew, every call of the new session uses that config and the posts of
\* that session, and no post of an earlier session is returned.
C4_RestartFresh ==
    /\ (stack # <<>> /\ pc \in Collecting) => config = NoConfig /\ initial_post = NoPost
    /\ (stack # <<>> /\ pc \in {"research", "format_post", "review"}) =>
          /\ config.topic = topic
          /\ config.format_type = format_map(format_choice)
          /\ config.length = length_map(length_choice)
          /\ config.is_customer_story => customer_asked
          /\ SessionCalls(Len(stack)) # <<>>
          /\ SessionCalls(Len(stack))[1].op = "get_user_preferences"
          /\ SessionCalls(Len(stack))[1].config = config
    /\ \A s \in Sessions \ {0} :
          LET sc == SessionCalls(s)
          IN \A k \in 1..Len(sc) :
                /\ sc[k].op = "get_user_preferences" <=> k = 1
                /\ sc[k].op = "get_research" => sc[k].topic = sc[1].config.topic
                /\ sc[k].op = "format_post" =>
                      sc[k].config = sc[1].config /\ sc[k].research = sc[k - 1].text
                /\ sc[k].op = "revise_post" => sc[k].original_post = sc[k - 1].post
    /\ has_returned =>
          \A i \in 1..Len(calls) :
             calls[i].session < Last.session => calls[i].post # returned

\* a restart, a new post with another topic, a revision of it and the accept
C4_Witness ==
    /\ has_returned
    /\ Last.session = 1
    /\ Last.op = "revise_post"
    /\ SessionCalls(0)[1].config.topic # SessionCalls(1)[1].config.topic

\* C5: a menu input other than "1", "2", "3" leaves the controller in REVIEW with
\* the post, the config, the frames and the call history unchanged.
C5_InvalidChoiceFrame ==
    [][(pc = "review" /\ choice' \notin {"1", "2", "3"}) =>
          /\ pc' = "review"
          /\ UNCHANGED <<config, initial_post, research_content, stack, calls,
                         returned, has_returned, error, nreplies, env>>]_vars

\* an invalid menu input was entered and the menu is shown again
C5_Witness ==
    /\ pc = "review"
    /\ choice = "4"
    /\ initial_post # NoPost

\* C6: with a credential absent or empty nothing but the error is ever shown, no
\* call is made, the session is not entered, and main ends having printed the error.
C6_MissingCredential ==
    (Falsy(env.PERPLEXITY_API_KEY) \/ Falsy(env.ANTHROPIC_API_KEY)) =>
        /\ pc \in {"main", "exit"}
        /\ shown \subseteq {"error"}
        /\ calls = <<>>
        /\ ~has_returned
        /\ pc = "exit" => error # "" /\ "error" \in shown

\* only the generation-service key is missing, and main has ended
C6_Witness ==
    /\ pc = "exit"
    /\ ~Falsy(env.PERPLEXITY_API_KEY)
    /\ env.ANTHROPIC_API_KEY = ""
    /\ error = "ANTHROPIC_API_KEY not found in environment variables"

\* C7: a failed service call is the last call ever made: main has printed the error
\* and ended, every frame is left and nothing was returned.
C7_FailureAborts ==
    \A i \in 1..Len(calls) :
        ~calls[i].ok =>
            /\ i = Len(calls)
            /\ pc = "exit"
            /\ error # ""
            /\ "error" \in shown
            /\ stack = <<>>
            /\ ~has_returned

\* a revise_post failed in a session entered by a restart
C7_Witness ==
    /\ calls # <<>>
    /\ ~Last.ok
    /\ Last.op = "revise_post"
    /\ Last.session >= 1
    /\ pc = "exit"

\* C8 as stated: the instruction holds the customer-story fragment exactly for the
\* story-based format with is_customer_story true.
C8_NoteOnlyForStory ==
    p_state = "built" =>
        (Contains(p_prompt, CUSTOMER_STORY_NOTE)
            <=> (p_config.is_customer_story /\ p_config.format_type = STORY_BASED))

\* C8 amended: the instruction holds the customer-story fragment exactly when
\* is_customer_story is true, whatever the format.
C8_NoteIffCustomerStory ==
    p_state = "built" =>
        (Contains(p_prompt, CUSTOMER_STORY_NOTE) <=> p_config.is_customer_story)

\* the story-based format with is_customer_story true, instruction built
C8_Witness ==
    /\ p_state = "built"
    /\ p_config.format_type = STORY_BASED
    /\ p_config.is_customer_story
    /\ Contains(p_prompt, CUSTOMER_STORY_NOTE)

\* C9: the streaming path returns the content the service delivered in fragments,
\* and it is what the single-shot path returns for the same content.
C9_StreamEqualsComplete ==
    /\ "stream" \in r_done => r_stream = upstream
    /\ r_done = {"stream", "complete"} => r_stream = r_complete

\* both paths returned; the stream had a chunk without content, an empty fragment
\* and two fragments with text
C9_Witness ==
    /\ r_done = {"stream", "complete"}
    /\ \E i \in 1..Len(wire) : ~wire[i].has
    /\ \E i \in 1..Len(wire) : wire[i].has /\ wire[i].text = <<>>
    /\ \E i, j \in 1..Len(wire) : i < j /\ wire[i].text # <<>> /\ wire[j].text # <<>>

\* C10: the PostConfig that leaves the collection has one of the four formats and
\* one of the three lengths, and the customer-story prompt was shown exactly when
\* the format chosen is the story-based one.
C10_ConfigValid ==
    /\ \A i \in 1..Len(calls) :
          calls[i].op \in {"get_user_preferences", "format_post"} =>
             /\ calls[i].config.format_type \in PostFormat
             /\ calls[i].config.length \in Lengths
    /\ pc \in {"research", "format_post", "review"} =>
          /\ config.format_type \in PostFormat
          /\ config.length \in Lengths
    /\ pc = "customer" => format_choice = "2"
    /\ pc \in {"length", "research", "format_post", "review"} =>
          (customer_asked <=> format_choice = "2")

\* the customer-story prompt was shown and a story-based config left the collection
C10_Witness ==
    /\ pc = "research"
    /\ customer_asked
    /\ config.format_type = STORY_BASED
    /\ config.length = "long"

====
